---- MODULE Spec2Model ----
(***************************************************************************)
(* Verification model of two subsystems of dairin0d/blender-2.8-scripts:   *)
(*   - the modal operator MouselookNavigation (mouselook_navigation) with  *)
(*     the InputKeyMonitor / ModeStack helpers of dairin0d.utils_userinput *)
(*     and the handler registry of dairin0d.utils_addon (SpecNav), its     *)
(*     independent modes (SpecModes) and its FLY / FPS fields: the fly     *)
(*     speed (SpecFly) and the teleport (SpecWalk);                        *)
(*   - the clipboard protocol of cut_copy_paste: OperatorCopy's            *)
(*     write_clipboard and OperatorPaste's read_clipboard (SpecClip) and   *)
(*     load_link / load_path (SpecLoad).                                   *)
(***************************************************************************)
EXTENDS Integers, Sequences, FiniteSets, TLC

\* ------------------------------------------------------------------------
\* Bounds of the model
\* ------------------------------------------------------------------------
\* View quantities (rotation, distance, focus) range over 0..MaxView.
MaxView == 1
\* At most this many settings differ from their defaults in one run.
MaxOverrides == 1
\* At most this many objects in the scene Copy reads.
MaxObjects == 2
\* At most this many libraries the objects are linked from.
MaxLibraries == 2
\* time.perf_counter runs over 0..MaxClock ticks in a run of FLY / FPS.
MaxClock == 4
\* At most this many ticks pass between two events.
MaxTick == 2
\* walk_prefs.teleport_time, in ticks.
TeleportTime == 2
\* Viewpoints lie at 0, TeleportTime, .., MaxPos * TeleportTime.
MaxPos == 2

ViewVals == 0 .. MaxView

\* ------------------------------------------------------------------------
\* MouselookNavigation_InputSettings
\* ------------------------------------------------------------------------
\* modes: the order is the iteration order of mode_keys in invoke.
modes == <<"ORBIT", "PAN", "DOLLY", "ZOOM", "FLY", "FPS">>

ModeNames == {modes[i] : i \in 1 .. Len(modes)}

transitions == {"NONE:ORBIT", "NONE:PAN", "NONE:DOLLY", "NONE:ZOOM", "NONE:FLY",
                "NONE:FPS", "ORBIT:PAN", "ORBIT:DOLLY", "ORBIT:ZOOM", "ORBIT:FLY",
                "ORBIT:FPS", "PAN:DOLLY", "PAN:ZOOM", "DOLLY:ZOOM", "FLY:FPS"}

\* Default key strings of the settings after InputKeyMonitor.parse_keys:
\* a modifier without an event is a state key ("shift"), a key with an
\* event is an event key ("TAB:PRESS"); "{Invoke key}" is the invoke event's
\* type, MIDDLEMOUSE here.
StateKeys == {"shift", "ctrl", "alt", "MIDDLEMOUSE"}

mode_keys == [m \in ModeNames |->
                CASE m = "PAN"  -> {"shift"}
                  [] m = "ZOOM" -> {"ctrl"}
                  [] m = "FLY"  -> {"MIDDLEMOUSE:DOUBLE_CLICK"}
                  [] m = "FPS"  -> {"TAB:PRESS"}
                  [] OTHER      -> {}]

keys_confirm == {"RET:PRESS", "NUMPAD_ENTER:PRESS", "LEFTMOUSE:PRESS"}
keys_cancel == {"ESC:PRESS", "RIGHTMOUSE:PRESS"}
keys_invoke_confirm == {"MIDDLEMOUSE:RELEASE"}
keys_orbit_snap == {"alt"}
keys_invoke == {"MIDDLEMOUSE"}

\* The settings of one run: the input settings copied by copy_input_settings,
\* the host's use_auto_perspective preference (and-ed with
\* rotation_snap_autoperspective), two properties of the view that do not
\* change during a run (sv.can_move; quadview_lock, a locked side view of a
\* quad view: not sv.is_region_3d and sv.quadview_lock), and the host state
\* invoke finds: the view's perspective flag and lock_camera, and the
\* use_mouse_continuous and smooth_view preferences.  The defaults are the
\* addon's and the host's; a run differs from them in at most MaxOverrides
\* places.
DefaultSettings == [default_mode |-> "ORBIT", allowed_transitions |-> transitions,
                    ortho_unrotate |-> TRUE, independent_modes |-> FALSE,
                    use_auto_perspective |-> TRUE, can_move |-> TRUE,
                    quadview_lock |-> FALSE, is_perspective |-> TRUE,
                    lock_camera |-> FALSE, use_mouse_continuous |-> TRUE,
                    smooth_view |-> 200]

AllSettings == [default_mode : {"ORBIT", "PAN"},
                allowed_transitions : {transitions,
                                       transitions \ {"NONE:PAN", "ORBIT:ZOOM"}},
                ortho_unrotate : BOOLEAN, independent_modes : {FALSE},
                use_auto_perspective : BOOLEAN, can_move : BOOLEAN,
                quadview_lock : BOOLEAN, is_perspective : BOOLEAN,
                lock_camera : BOOLEAN, use_mouse_continuous : BOOLEAN,
                smooth_view : {0, 200}]

Overrides(s) == Cardinality({f \in DOMAIN s : s[f] # DefaultSettings[f]})

NavSettings == {s \in AllSettings : Overrides(s) <= MaxOverrides}

\* ------------------------------------------------------------------------
\* State
\* ------------------------------------------------------------------------
VARIABLES
    pc,            \* "idle", "modal", or how the operator ended
    settings,      \* the input settings copied by copy_input_settings
    km,            \* InputKeyMonitor: [states, event]
    ms,            \* ModeStack: [mode, stack, prev_state, transitions]
    mode_path,     \* modes self.mode went through in the last ModeStack.update
    upd_transitions, \* ms.transitions when that update ran
    sv,            \* SmartView3D: the view and its camera-lock flags
    self,          \* operator fields: the _xxx0 snapshot taken by invoke
    modes_state,   \* self.modes_state
    prefs,         \* userprefs: use_mouse_continuous, smooth_view
    addon_objects, \* AddonManager.objects (keys of registered handlers)
    pre,           \* history: the view, lock_camera and the preferences when
                   \* invoke was entered, and the view after invoke's
                   \* orbit-origin depth adjustment
    ortho_panned,  \* history: PAN, DOLLY or ZOOM has been the active mode in
                   \* an orthographic view with ortho_unrotate on
    active_state,  \* history: for each mode, the view at the end of the last
                   \* event in which it was the mode stack's mode (the view
                   \* invoke left, for a mode that has not been)
    fps,           \* operator fields of FLY / FPS: fly_speed, teleport_*,
                   \* clock, velocity, the viewpoint, and the event's history
    scene,         \* bpy.data.objects: a sequence of objects
    data_filepath, \* bpy.data.filepath
    clipboard,     \* window_manager.clipboard, as the JSON value it holds
    copied,        \* history: what the last Copy encoded into the clipboard
    paste          \* the outcome of the last Paste of this clipboard text

navvars == <<pc, settings, km, ms, mode_path, upd_transitions, sv, self,
             modes_state, prefs, addon_objects, pre, ortho_panned, active_state>>

clipvars == <<scene, data_filepath, clipboard, copied, paste>>

vars == <<navvars, clipvars, fps>>

\* ------------------------------------------------------------------------
\* dairin0d.utils_userinput: InputKeyMonitor
\* ------------------------------------------------------------------------
\* Events the host delivers to the modal handler: a type:value pair and the
\* modifier flags.  A change of a modifier key is an event of its own, which
\* carries the new flag; every other event carries the flags unchanged.
EventNames == {"MOUSEMOVE:NOTHING", "TIMER:NOTHING", "WHEELUPMOUSE:PRESS",
               "TAB:PRESS", "MIDDLEMOUSE:DOUBLE_CLICK", "MIDDLEMOUSE:RELEASE",
               "RET:PRESS", "ESC:PRESS"}

Modifiers == {"shift", "ctrl", "alt"}

ModifierEvent(k, mod) ==
    [name |-> (CASE mod = "shift" -> "LEFT_SHIFT"
                 [] mod = "ctrl" -> "LEFT_CTRL"
                 [] mod = "alt" -> "LEFT_ALT")
              \o (IF k.states[mod] THEN ":RELEASE" ELSE ":PRESS"),
     shift |-> (k.states["shift"] # (mod = "shift")),
     ctrl |-> (k.states["ctrl"] # (mod = "ctrl")),
     alt |-> (k.states["alt"] # (mod = "alt"))]

Events(k) ==
    {[name |-> n, shift |-> k.states["shift"], ctrl |-> k.states["ctrl"],
      alt |-> k.states["alt"]] : n \in EventNames}
    \cup {ModifierEvent(k, mod) : mod \in Modifiers}

\* InputKeyMonitor.update: a PRESS or DOUBLE_CLICK sets the state of the
\* event's type, a RELEASE clears it, the modifier states are read from the
\* event, and self.event becomes type:value.  Of self.states only the keys
\* that a key checker of the default settings reads as a state are kept.
InputKeyMonitor_update(k, event) ==
    [states |-> [key \in StateKeys |->
                    CASE key = "shift" -> event.shift
                      [] key = "ctrl"  -> event.ctrl
                      [] key = "alt"   -> event.alt
                      [] key = "MIDDLEMOUSE" ->
                           IF event.name \in {"MIDDLEMOUSE:PRESS",
                                              "MIDDLEMOUSE:DOUBLE_CLICK"} THEN TRUE
                           ELSE IF event.name = "MIDDLEMOUSE:RELEASE" THEN FALSE
                           ELSE k.states[key]],
     event |-> event.name]

\* check('ON|TOGGLE') of a key checker: a state key that is on gives 'ON',
\* else an event key equal to the current event gives 'TOGGLE', else None.
check_ON_TOGGLE(k, keys) ==
    IF \E key \in keys : key \in StateKeys /\ k.states[key] THEN "ON"
    ELSE IF \E key \in keys : key \notin StateKeys /\ k.event = key THEN "TOGGLE"
    ELSE "None"

\* check('PRESS') of a key checker whose keys are all event keys.
check_PRESS(k, keys) == \E key \in keys : k.event = key

\* check('ON') of a key checker whose keys are all state keys.
check_ON(k, keys) == \E key \in keys : k.states[key]

\* ------------------------------------------------------------------------
\* dairin0d.utils_userinput: ModeStack
\* ------------------------------------------------------------------------
ModeStack_init(keys_transitions, default_mode, mode) ==
    [mode |-> mode, default_mode |-> default_mode, stack |-> <<default_mode>>,
     prev_state |-> [m \in ModeNames |-> 0], transitions |-> keys_transitions]

\* A ModeStack whose transition_allowed lets every transition pass
transition_allowed_any(trs, mode0, mode1) == TRUE

transition_allowed(trs, mode0, mode1) ==
    \/ (mode0 \o ":" \o mode1) \in trs
    \/ (mode1 \o ":" \o mode0) \in trs

\* list.remove(name) when name is in the list (names are unique in the stack)
remove(stack, name) == SelectSeq(stack, LAMBDA x : x # name)

\* search_direction is -1 for the mode stack: from the top of the stack down
find_transition(m) ==
    LET ok == {i \in 1 .. Len(m.stack) :
                  transition_allowed(m.transitions, m.mode, m.stack[i])}
    IN  IF ok = {} THEN m
        ELSE LET i == CHOOSE j \in ok : \A l \in ok : l <= j
             IN  [m EXCEPT !.mode = m.stack[i], !.stack = SubSeq(m.stack, 1, i)]

\* One iteration of the loop of ModeStack.update, for the key checker of
\* mode `name` whose check('ON|TOGGLE') gave `result`.
update_key(m, name, result) ==
    LET is_on == IF result = "None" THEN 0 ELSE 1
        delta_on == IF result = "TOGGLE"
                    THEN (IF m.mode # name THEN 1 ELSE -1)
                    ELSE is_on - m.prev_state[name]
        m1 == IF result = "TOGGLE" THEN m
              ELSE [m EXCEPT !.prev_state[name] = is_on]
    IN  IF delta_on > 0
        THEN IF transition_allowed(m1.transitions, m1.mode, name)
             THEN [m1 EXCEPT !.stack = Append(remove(m1.stack, name), name),
                             !.mode = name]
             ELSE m1
        ELSE IF delta_on < 0
        THEN IF m1.mode # name
             THEN [m1 EXCEPT !.stack = remove(m1.stack, name)]
             ELSE find_transition(m1)
        ELSE m1

\* ModeStack.update: the loop over self.keys, in the order of `modes`.
\* The result pairs the stack with the modes self.mode went through.
RECURSIVE update_from(_, _, _, _)
update_from(m, path, k, i) ==
    IF i > Len(modes) THEN [ms |-> m, path |-> path]
    ELSE LET m1 == update_key(m, modes[i], check_ON_TOGGLE(k, mode_keys[modes[i]]))
         IN  update_from(m1,
                         IF m1.mode # m.mode THEN Append(path, m1.mode) ELSE path,
                         k, i + 1)

ModeStack_update(m, k) == update_from(m, <<m.mode>>, k, 1)

remove_transitions(m, trs) == [m EXCEPT !.transitions = m.transitions \ trs]

\* ------------------------------------------------------------------------
\* dairin0d.utils_addon: AddonManager (the registry of handlers)
\* ------------------------------------------------------------------------
\* event_timer_add / draw_handler_add: the new handler is a key of objects
AddonManager_add(objects, key) == objects \cup {key}

\* remove(*keys): every key that is registered is removed from objects
AddonManager_remove(objects, keys) == objects \ keys

\* ------------------------------------------------------------------------
\* dairin0d.utils_view3d.SmartView3D is not among the sources.  The view is a
\* record of the properties the operator reads and writes; assigning a
\* property stores the value and leaves the other properties alone.  The
\* operator's self.pos and self.rot / self.euler are kept equal to sv.focus
\* and sv.rotation by every method that changes one of them, and are
\* represented by them.
\* ------------------------------------------------------------------------
SmartView3D_set(v, name, value) == [v EXCEPT ![name] = value]

ViewOf(v) == [is_perspective |-> v.is_perspective, distance |-> v.distance,
              focus |-> v.focus, rotation |-> v.rotation]

\* ------------------------------------------------------------------------
\* MouselookNavigation
\* ------------------------------------------------------------------------
register_handlers(objects) ==
    AddonManager_add(AddonManager_add(objects, "_timer"), "_handle_view")

\* An unregister_handlers that forgets the draw handler
unregister_timer_only(objects) == AddonManager_remove(objects, {"_timer"})

unregister_handlers(objects) ==
    AddonManager_remove(AddonManager_remove(objects, {"_timer"}), {"_handle_view"})

\* An invoke without the fallback of lines 1074-1075
initial_mode_kept(m, default_mode) == m

\* invoke, lines 1074-1075: a mode stack left in 'NONE' starts in the default mode
initial_mode(m, default_mode) ==
    IF m.mode = "NONE" THEN [m EXCEPT !.mode = default_mode] ELSE m

\* invoke, lines 1107-1119: the snapshot of what cleanup / revert_changes restore
snapshot(v, p) ==
    [_lock_camera |-> v.lock_camera,
     _continuous0 |-> p.use_mouse_continuous,
     _perspective0 |-> v.is_perspective,
     _distance0 |-> v.distance,
     _pos0 |-> v.focus,
     _rot0 |-> v.rotation,
     _smooth_view0 |-> p.smooth_view]

\* A revert_changes that leaves the distance as navigation left it
revert_changes_but_distance(v, me) ==
    LET v1 == SmartView3D_set(v, "bypass_camera_lock", TRUE)
        v2 == SmartView3D_set(v1, "use_viewpoint", FALSE)
        v3 == SmartView3D_set(v2, "rotation", me._rot0)
        v5 == SmartView3D_set(v3, "focus", me._pos0)
    IN  SmartView3D_set(v5, "is_perspective", me._perspective0)

\* revert_changes: the view part
revert_changes(v, me) ==
    LET v1 == SmartView3D_set(v, "bypass_camera_lock", TRUE)
        v2 == SmartView3D_set(v1, "use_viewpoint", FALSE)
        v3 == SmartView3D_set(v2, "rotation", me._rot0)
        v4 == SmartView3D_set(v3, "distance", me._distance0)
        v5 == SmartView3D_set(v4, "focus", me._pos0)
    IN  SmartView3D_set(v5, "is_perspective", me._perspective0)

\* cleanup: the view part
cleanup_view(v, me) == SmartView3D_set(v, "lock_camera", me._lock_camera)

\* A cleanup that restores use_mouse_continuous but not smooth_view
cleanup_prefs_but_smooth_view(p, me) ==
    [p EXCEPT !.use_mouse_continuous = me._continuous0]

\* cleanup: the preferences part
cleanup_prefs(p, me) ==
    [p EXCEPT !.use_mouse_continuous = me._continuous0,
              !.smooth_view = me._smooth_view0]

\* reset_rotation
reset_rotation(v, me, use_auto_perspective) ==
    LET v1 == SmartView3D_set(v, "rotation", me._rot0)
    IN  IF use_auto_perspective
        THEN SmartView3D_set(v1, "is_perspective", me._perspective0)
        ELSE v1

mode_state(v) == ViewOf(v)

\* modal_main, line 667.  self.modes_state is read only with independent
\* modes (line 423); without them the record is never read and is not kept.
record_mode_state(mstate, mode, v) ==
    IF settings.independent_modes
    THEN [mstate EXCEPT ![mode] = mode_state(v)]
    ELSE mstate

\* History of the active mode's view, kept like self.modes_state only with
\* independent modes
note_active(hist, mode, v) ==
    IF settings.independent_modes /\ mode \in DOMAIN hist
    THEN [hist EXCEPT ![mode] = mode_state(v)]
    ELSE hist

\* modal_main, lines 423-434: with independent modes, a change to a mode
\* other than FLY / FPS restores the view recorded for that mode
restore_mode_state(v, st) ==
    LET v1 == SmartView3D_set(v, "is_perspective", st.is_perspective)
        v2 == SmartView3D_set(v1, "distance", st.distance)
        v3 == SmartView3D_set(v2, "focus", st.focus)
    IN  SmartView3D_set(v3, "rotation", st.rotation)

\* modal_main, lines 493-563: the branch of the FLY and FPS modes.  nv is
\* the value the navigated quantity takes (the mouse and wheel deltas are not
\* modelled).  The local `mode` is back to mode_stack.mode at the end.
fly_view(v) ==
    SmartView3D_set(SmartView3D_set(SmartView3D_set(v,
        "is_perspective", TRUE), "use_viewpoint", TRUE), "bypass_camera_lock", TRUE)

\* update_fly_speed -> change_distance
fly_wheel(v, event, nv) ==
    IF event.name = "WHEELUPMOUSE:PRESS" THEN SmartView3D_set(v, "distance", nv) ELSE v

\* the local mode of lines 503, 541-543: FLY pans while the invoke key is held
fly_local_mode(m, k) ==
    IF m.mode = "FLY" /\ check_ON(k, keys_invoke) THEN "PAN" ELSE "ORBIT"

fly_mouse(v, lmode, event, nv) ==
    IF event.name # "MOUSEMOVE:NOTHING" THEN v
    ELSE IF lmode = "ORBIT" THEN SmartView3D_set(v, "rotation", nv)
    ELSE SmartView3D_set(v, "focus", nv)

fly_branch(v, m, k, event, nv) ==
    IF settings.quadview_lock
    THEN [sv |-> v, ms |-> m, mode |-> m.mode, confirm |-> FALSE, snap |-> FALSE]
    ELSE [sv |-> fly_mouse(fly_wheel(fly_view(v), event, nv),
                           fly_local_mode(m, k), event, nv),
          ms |-> m, mode |-> m.mode, confirm |-> FALSE, snap |-> FALSE]

\* modal_main, lines 564-632: the branch of the other modes
nav_view(v) ==
    SmartView3D_set(SmartView3D_set(v, "use_viewpoint", FALSE),
                    "bypass_camera_lock", self._lock_camera)

\* lines 586-588: DOLLY is ZOOM in an orthographic view
nav_local_mode(v, m) ==
    IF ~v.is_perspective /\ m.mode = "DOLLY" THEN "ZOOM" ELSE m.mode

\* lines 586-595: the test of ortho_unrotate
unrotate(v, m) ==
    /\ ~v.is_perspective
    /\ settings.ortho_unrotate
    /\ nav_local_mode(v, m) \in {"PAN", "DOLLY", "ZOOM"}

\* line 594: forbid transitions back to orbit
unrotate_ms(v, m) ==
    IF unrotate(v, m)
    THEN remove_transitions(m, {"ORBIT:PAN", "ORBIT:DOLLY", "ORBIT:ZOOM"})
    ELSE m

\* line 595
unrotate_view(v, m) ==
    IF unrotate(v, m) THEN reset_rotation(v, self, settings.use_auto_perspective)
    ELSE v

\* lines 597-623: a mouse move navigates by the local mode
nav_orbit(v, is_orbit_snap) ==
    IF settings.use_auto_perspective
    THEN SmartView3D_set(v, "is_perspective", ~is_orbit_snap)
    ELSE v

nav_mouse(v, lmode, is_orbit_snap, event, nv) ==
    IF event.name # "MOUSEMOVE:NOTHING" THEN v
    ELSE IF lmode = "ORBIT"
    THEN nav_orbit(SmartView3D_set(v, "rotation", nv), is_orbit_snap)
    ELSE IF lmode \in {"PAN", "DOLLY"} THEN SmartView3D_set(v, "focus", nv)
    ELSE IF lmode = "ZOOM" THEN SmartView3D_set(v, "distance", nv)
    ELSE v

\* lines 625-626
nav_wheel(v, event, nv) ==
    IF event.name = "WHEELUPMOUSE:PRESS" THEN SmartView3D_set(v, "distance", nv) ELSE v

nav_move(v, m, k, event, nv) ==
    [sv |-> nav_wheel(nav_mouse(unrotate_view(v, m), nav_local_mode(v, m),
                                check_ON(k, keys_orbit_snap), event, nv),
                      event, nv),
     ms |-> unrotate_ms(v, m),
     mode |-> nav_local_mode(v, m),
     confirm |-> check_PRESS(k, keys_invoke_confirm),
     snap |-> check_ON(k, keys_orbit_snap)]

nav_still(v, m, k) ==
    [sv |-> v, ms |-> m, mode |-> m.mode,
     confirm |-> check_PRESS(k, keys_invoke_confirm), snap |-> FALSE]

nav_branch(v, m, k, event, nv) ==
    IF settings.can_move THEN nav_move(nav_view(v), m, k, event, nv)
    ELSE nav_still(nav_view(v), m, k)

\* modal_main, lines 423-434: the view the branches start from
independent_view(mode) ==
    IF settings.independent_modes /\ mode # ms.mode /\ mode \notin {"FLY", "FPS"}
    THEN restore_mode_state(sv, modes_state[mode])
    ELSE sv

\* modal_main, lines 493-632
branch(upd, k, event, nv) ==
    IF upd.ms.mode \in {"FLY", "FPS"}
    THEN fly_branch(independent_view(upd.ms.mode), upd.ms, k, event, nv)
    ELSE nav_branch(independent_view(upd.ms.mode), upd.ms, k, event, nv)

\* modal_main, lines 637-645: the timer's auto-levelling changes the rotation
autolevel(b, event, nv) ==
    IF /\ event.name = "TIMER:NOTHING"
       /\ settings.can_move
       /\ (~b.snap \/ b.mode # "ORBIT")
    THEN SmartView3D_set(b.sv, "rotation", nv)
    ELSE b.sv

\* modal_main, lines 651-658: the keyboard / fly / gravity movement; fv is the
\* focus after it (fv = the current focus: no movement)
movement(v, fv) ==
    IF settings.can_move /\ fv # v.focus THEN SmartView3D_set(v, "focus", fv) ELSE v

\* modal_main, lines 667-679
modal_result(k, upd, b, v) ==
    [km |-> k, ms |-> b.ms, path |-> upd.path, sv |-> v,
     modes_state |-> record_mode_state(modes_state, b.mode, v),
     confirm |-> check_PRESS(k, keys_confirm) \/ b.confirm,
     cancel |-> check_PRESS(k, keys_cancel)]

modal_moved(k, upd, b, event, nv, fv) ==
    modal_result(k, upd, b, movement(autolevel(b, event, nv), fv))

modal_updated(k, upd, event, nv, fv) ==
    modal_moved(k, upd, branch(upd, k, event, nv), event, nv, fv)

modal_keys(k, event, nv, fv) ==
    modal_updated(k, ModeStack_update(ms, k), event, nv, fv)

\* modal_main up to the confirm / cancel test: the event's effect
modal_main(event, nv, fv) ==
    modal_keys(InputKeyMonitor_update(km, event), event, nv, fv)

\* ------------------------------------------------------------------------
\* MouselookNavigation: the fields of FLY and FPS
\* ------------------------------------------------------------------------
\* Speeds are counted in halves, so that a speed with a fractional part can
\* be told from a whole one: 2 is the speed 1.0.
Half == 2

\* update_fly_speed, line 757: the limits of the forward speed
MaxFlySpeed == 9

\* None, for a position
NoPos == <<>>

Positions == {i * TeleportTime : i \in 0 .. MaxPos}

\* The keys of fps_move_vector's forward axis
MoveKeys == {"forward", "back"}

\* invoke, lines 1102 and 1133-1139.  mode is mode_stack.mode as the last event
\* left it ("ORBIT" stands for every mode but FLY and FPS), viewpoint is
\* sv.viewpoint; held, pending and moved are history: the movement keys held
\* in the last event, self.teleport_pos when line 652 tested it and the
\* branch that test took.
FpsStart ==
    [mode |-> "ORBIT", fly_speed |-> 0, teleport_pos |-> NoPos,
     teleport_pos_start |-> NoPos, teleport_time_start |-> -1,
     teleport_allowed |-> FALSE, clock |-> 0, velocity |-> 0, viewpoint |-> 0,
     held |-> {}, pending |-> NoPos, moved |-> "none"]

Abs(x) == IF x < 0 THEN -x ELSE x

Min(a, b) == IF a < b THEN a ELSE b

Max(a, b) == IF a > b THEN a ELSE b

\* round() of Python 3 on a count of halves: a half goes to the even neighbour
round(x) ==
    IF x % Half = 0 THEN x
    ELSE IF ((x - 1) \div Half) % 2 = 0 THEN x - 1 ELSE x + 1

\* An update_fly_speed without the limits of line 757
update_fly_speed_unlimited(f, wheel_delta, dont_fly) ==
    IF dont_fly THEN [f EXCEPT !.fly_speed = 0]
    ELSE [f EXCEPT !.fly_speed = round(f.fly_speed + wheel_delta * Half)]

\* update_fly_speed; its change_distance is the view's (fly_wheel)
update_fly_speed(f, wheel_delta, dont_fly) ==
    IF dont_fly THEN [f EXCEPT !.fly_speed = 0]
    ELSE LET fwd_speed == f.fly_speed
             delta == IF wheel_delta * fwd_speed < 0 /\ Abs(fwd_speed) >= 2 * Half
                      THEN wheel_delta * 2 ELSE wheel_delta
         IN  [f EXCEPT !.fly_speed =
                 round(Min(Max(fwd_speed + delta * Half, -MaxFlySpeed * Half),
                           MaxFlySpeed * Half))]

\* fps_move_vector, its forward axis
fps_move_vector(held) ==
    (IF "forward" \in held THEN 1 ELSE 0) - (IF "back" \in held THEN 1 ELSE 0)

\* modal_main, lines 521-533: a teleport starts on a press of the teleport
\* key that follows an event without it, when the ray cast hits (hit: the
\* location moved off the surface by view_height)
teleport_start(f, is_teleport, hit, clock) ==
    LET allowed == f.teleport_allowed \/ ~is_teleport
    IN  IF allowed /\ is_teleport /\ hit # NoPos
        THEN [f EXCEPT !.teleport_allowed = allowed,
                       !.teleport_time_start = clock,
                       !.teleport_pos = hit,
                       !.teleport_pos_start = <<f.viewpoint>>]
        ELSE [f EXCEPT !.teleport_allowed = allowed]

\* modal_main, line 535
teleport_abandon(f, held) ==
    IF fps_move_vector(held) # 0 THEN [f EXCEPT !.teleport_pos = NoPos] ELSE f

\* modal_main, lines 505-535: the FPS mode
fps_fields(f, in, clock) ==
    teleport_abandon(teleport_start(update_fly_speed(f, in.wheel_delta, TRUE),
                                    in.is_teleport, in.hit, clock),
                     in.held)

\* modal_main, lines 536-543: the FLY mode
fly_stop(f, invoke_on) == IF invoke_on THEN [f EXCEPT !.fly_speed = 0] ELSE f

fly_fields(f, in) ==
    fly_stop(update_fly_speed(f, in.wheel_delta, fps_move_vector(in.held) # 0),
             in.invoke_on)

\* modal_main, lines 493-569: the branch of the mode
mode_fields(f, in, clock) ==
    IF in.mode \in {"FLY", "FPS"}
    THEN IF settings.quadview_lock THEN f
         ELSE IF in.mode = "FPS" THEN fps_fields(f, in, clock)
         ELSE fly_fields(f, in)
    ELSE [f EXCEPT !.teleport_pos = NoPos, !.teleport_allowed = FALSE]

\* gravity applies in FPS with the walk preference, lines 495, 506-511, 537, 566
use_gravity(in) ==
    in.mode = "FPS" /\ ~settings.quadview_lock /\ in.use_gravity

\* calc_abs_speed: walk is the displacement the keys, the fly speed and the
\* collision test give; gravity integrates self.velocity over dt (a collision
\* stops the fall), and without gravity the velocity is reset
calc_abs_speed(f, in, dt) ==
    [abs_speed |-> in.walk,
     f |-> [f EXCEPT !.velocity = IF use_gravity(in) /\ ~in.collided
                                  THEN f.velocity - dt ELSE 0,
                     !.moved = "normal"]]

\* A calc_abs_speed_teleport that arrives without clearing the target
calc_abs_speed_teleport_kept(f, clock, dt) ==
    LET t == (clock - f.teleport_time_start) + dt
        p1 == IF t >= TeleportTime THEN f.teleport_pos[1]
              ELSE (f.teleport_pos[1] * t
                    + f.teleport_pos_start[1] * (TeleportTime - t)) \div TeleportTime
    IN  [abs_speed |-> p1 - f.viewpoint, f |-> [f EXCEPT !.moved = "teleport"]]

\* calc_abs_speed_teleport
calc_abs_speed_teleport(f, clock, dt) ==
    LET t == (clock - f.teleport_time_start) + dt
    IN  IF t >= TeleportTime
        THEN [abs_speed |-> f.teleport_pos[1] - f.viewpoint,
              f |-> [f EXCEPT !.teleport_pos = NoPos, !.moved = "teleport"]]
        ELSE [abs_speed |-> (f.teleport_pos[1] * t
                             + f.teleport_pos_start[1] * (TeleportTime - t))
                            \div TeleportTime - f.viewpoint,
              f |-> [f EXCEPT !.moved = "teleport"]]

\* modal_main, lines 651-658: with the viewpoint in use, change_pos moves it
change_pos(r) == [r.f EXCEPT !.viewpoint = r.f.viewpoint + r.abs_speed]

fps_movement(f, in, clock, dt) ==
    IF ~settings.can_move THEN [f EXCEPT !.moved = "none"]
    ELSE IF f.teleport_pos = NoPos THEN change_pos(calc_abs_speed(f, in, dt))
    ELSE change_pos(calc_abs_speed_teleport(f, clock, dt))

\* modal_main, lines 634-635 and the history of the event
fps_event(f, in, clock) ==
    [f EXCEPT !.mode = in.mode, !.clock = clock, !.held = in.held,
              !.pending = f.teleport_pos]

\* modal_main on the fields of FLY and FPS; in: what the event and the host
\* put in, clock: time.perf_counter()
fps_modal_main(f, in, clock) ==
    fps_movement(fps_event(mode_fields(f, in, clock), in, clock), in,
                 clock, clock - f.clock)

\* ------------------------------------------------------------------------
\* cut_copy_paste: the scene Copy reads
\* ------------------------------------------------------------------------
\* Object names; a name may hold the "/" that separates the library id from
\* the name in an object id.
Names == {"P", "a/b"}

\* 0 stands for no library (a datablock of the current file), 1 .. for the
\* Library datablocks.
Libraries == 0 .. MaxLibraries

\* bpy.data.filepath: "" while the file is unsaved
FilePaths == {"", "/cur.blend"}

\* An object: its name, its library and its parent (0: none; the index of an
\* object of the scene).  Names are unique within a library and the parent
\* relation is acyclic.
Objects == [name : Names, library : Libraries, parent : 0 .. MaxObjects]

WellFormedScene(s) ==
    \A i \in DOMAIN s :
       /\ s[i].parent < i
       /\ \A j \in DOMAIN s :
             i # j /\ s[i].library = s[j].library => s[i].name # s[j].name

Scenes == UNION {{s \in [1 .. n -> Objects] : WellFormedScene(s)} :
                    n \in 1 .. MaxObjects}

CopyModes == {"COPY", "COPY_TEXT", "COPY_LINKED"}

\* The orders in which a set can be iterated
Orders(S) == {o \in [1 .. Cardinality(S) -> S] :
                 \A i, j \in DOMAIN o : i # j => o[i] # o[j]}

\* ------------------------------------------------------------------------
\* JSON values.  json.dumps writes None as null, a tuple as an array and an
\* int key of a dict as a string; json.loads gives the value back with the
\* keys of a dict in the order of the text.
\* ------------------------------------------------------------------------
JNull == [t |-> "null"]
JStr(s) == [t |-> "str", s |-> s]
JNum(n) == [t |-> "num", n |-> n]
JList(s) == [t |-> "list", items |-> s]

\* A dict: its keys in order, and the value of each key
JDict(keys, f) == [t |-> "obj", keys |-> keys, v |-> f]

\* A number too large for a float (1e999): json.loads gives inf
JInf == [t |-> "inf"]

\* A text that json.loads rejects
JInvalid == [t |-> "invalid"]

\* d.get(name)
Get(d, name) == IF d.t = "obj" /\ name \in DOMAIN d.v THEN d.v[name] ELSE JNull

\* ------------------------------------------------------------------------
\* cut_copy_paste: ClipboardUtil
\* ------------------------------------------------------------------------
content_key == "Blender Clipboard"

\* serialize_matrix: the first three rows of the 4x4 matrix
Row(n) == JList([i \in 1 .. n |-> JNum(0)])

Rows(m, n) == JList([i \in 1 .. m |-> Row(n)])

serialize_matrix == Rows(3, 4)

\* serialize_view_rotation in a 3D view: the quaternion as a tuple
serialize_view_rotation == Row(4)

\* get_library_path
get_library_path(filepath, library) ==
    IF library = 0 THEN filepath ELSE "/lib" \o ToString(library) \o ".blend"

\* A get_library_id that gives every call a new id
get_library_id_always_new(libs, library) ==
    [libs |-> Append(libs, library), id |-> Len(libs)]

\* get_library_id: library_ids maps a library to its position in
\* library_paths; libs is the list of the libraries in that order.
get_library_id(libs, library) ==
    IF \E i \in 1 .. Len(libs) : libs[i] = library
    THEN [libs |-> libs, id |-> (CHOOSE i \in 1 .. Len(libs) : libs[i] = library) - 1]
    ELSE [libs |-> Append(libs, library), id |-> Len(libs)]

\* library_paths, from the list of the libraries
library_paths(filepath, libs) ==
    [i \in 1 .. Len(libs) |-> get_library_path(filepath, libs[i])]

\* BlUtil.Object.map_children: parent_map[obj] is the nearest ancestor of obj
\* among objs, or None (0)
RECURSIVE parent_map(_, _, _)
parent_map(s, objs, i) ==
    IF s[i].parent = 0 THEN 0
    ELSE IF s[i].parent \in objs THEN s[i].parent
    ELSE parent_map(s, objs, s[i].parent)

\* ------------------------------------------------------------------------
\* cut_copy_paste: OperatorCopy
\* ------------------------------------------------------------------------
\* get_object_id: f"{library_id}/{obj.name}"
object_id(library_id, name) == ToString(library_id) \o "/" \o name

\* One entry of get_hierarchy_info's dict for object o, whose library got id
\* r1.id and whose parent p (0: none) got r2.id.  `ref` and `parent_ref` keep
\* the (library id, name) pairs the two ids were formatted from, `obj` and
\* `parent_obj` the two objects.
hierarchy_entry(s, o, p, r1, r2) ==
    [obj |-> o,
     key |-> object_id(r1.id, s[o].name),
     ref |-> <<r1.id, s[o].name>>,
     parent |-> IF p = 0 THEN "" ELSE object_id(r2.id, s[p].name),
     parent_ref |-> IF p = 0 THEN <<>> ELSE <<r2.id, s[p].name>>,
     parent_obj |-> p]

\* get_object_id(parent_map.get(obj)): no library id is taken for None
parent_library_id(s, p, libs) ==
    IF p = 0 THEN [libs |-> libs, id |-> 0] ELSE get_library_id(libs, s[p].library)

hierarchy_step(s, o, p, r1) ==
    hierarchy_entry(s, o, p, r1, parent_library_id(s, p, r1.libs))

\* get_hierarchy_info: the loop over objs, in the order the set is iterated
RECURSIVE get_hierarchy_info(_, _, _, _, _, _)
get_hierarchy_info(libs, s, objs, order, i, info) ==
    IF i > Len(order) THEN [libs |-> libs, info |-> info]
    ELSE get_hierarchy_info(
             parent_library_id(s, parent_map(s, objs, order[i]),
                               get_library_id(libs, s[order[i]].library).libs).libs,
             s, objs, order, i + 1,
             Append(info, hierarchy_step(s, order[i], parent_map(s, objs, order[i]),
                                         get_library_id(libs, s[order[i]].library))))

\* "active": the id of the active object if it is among objs, else None
active_entry(s, objs, active, r) ==
    IF active \in objs
    THEN [key |-> JStr(object_id(r.id, s[active].name)), ref |-> <<r.id, s[active].name>>]
    ELSE [key |-> JNull, ref |-> <<>>]

\* The name datablock.make_local() gives the local copy: the name itself,
\* or the name with a numeric suffix when a local datablock has it already.
local_name(s, i) ==
    LET n == Cardinality({j \in DOMAIN s : /\ j # i
                                           /\ s[j].name = s[i].name
                                           /\ (s[j].library = 0 \/ j < i)})
    IN  IF n = 0 THEN s[i].name ELSE s[i].name \o ".00" \o ToString(n)

\* The library id a library has got
library_id_of(libs, library) == (CHOOSE i \in 1 .. Len(libs) : libs[i] = library) - 1

\* ClipboardUtil.write with pack -> make_everything_local -> make_local: the
\* id_map entries, one for each linked object of the target datablocks
make_local(s, objs, libs) ==
    LET linked == SelectSeq([i \in DOMAIN s |-> i],
                            LAMBDA i : i \in objs /\ s[i].library # 0)
    IN  [k \in 1 .. Len(linked) |->
            [src |-> object_id(library_id_of(libs, s[linked[k]].library),
                               s[linked[k]].name),
             dst |-> object_id(get_library_id(libs, 0).id, local_name(s, linked[k])),
             dst_ref |-> <<get_library_id(libs, 0).id, local_name(s, linked[k])>>]]

\* write_clipboard, lines 494-502, for one item of id_map
remap_active(a, item) ==
    IF a.key = JStr(item.src) THEN [key |-> JStr(item.dst), ref |-> item.dst_ref] ELSE a

remap_hierarchy(info, item) ==
    IF \E i \in 1 .. Len(info) : info[i].key = item.src
    THEN SelectSeq(info, LAMBDA e : e.key # item.src)
         \o <<[(CHOOSE e \in {info[i] : i \in 1 .. Len(info)} : e.key = item.src)
                  EXCEPT !.key = item.dst, !.ref = item.dst_ref]>>
    ELSE info

RECURSIVE remap(_, _, _, _)
remap(a, info, id_map, k) ==
    IF k > Len(id_map) THEN [active |-> a, info |-> info]
    ELSE remap(remap_active(a, id_map[k]), remap_hierarchy(info, id_map[k]),
               id_map, k + 1)

\* id_map after ClipboardUtil.write: filled only when the data is packed
id_map_of(mode, s, objs, libs) ==
    IF mode = "COPY_TEXT" THEN make_local(s, objs, libs) ELSE <<>>

\* json.dumps of the hierarchy dict
entry_json(e) ==
    JDict(<<"parent", "parent_bone", "matrix">>,
          [parent |-> JStr(e.parent), parent_bone |-> JStr(""),
           matrix |-> serialize_matrix])

hierarchy_json(info) ==
    JDict([i \in 1 .. Len(info) |-> info[i].key],
          [k \in {info[i].key : i \in 1 .. Len(info)} |->
              entry_json(CHOOSE e \in {info[i] : i \in 1 .. Len(info)} : e.key = k)])

\* The keys of a dict in the order of their first insertion
RECURSIVE first_insertions(_)
first_insertions(seq) ==
    IF seq = <<>> THEN <<>>
    ELSE IF \E i \in 1 .. Len(seq) - 1 : seq[i] = seq[Len(seq)]
         THEN first_insertions(SubSeq(seq, 1, Len(seq) - 1))
         ELSE Append(first_insertions(SubSeq(seq, 1, Len(seq) - 1)), seq[Len(seq)])

\* The names get_link_info collects for one library id
link_names(s, order, libs, id) ==
    LET of_id == SelectSeq(order, LAMBDA o : library_id_of(libs, s[o].library) = id)
    IN  JList([i \in 1 .. Len(of_id) |-> JStr(s[of_id[i]].name)])

link_ids(s, order, libs) ==
    first_insertions([i \in 1 .. Len(order) |-> library_id_of(libs, s[order[i]].library)])

\* get_link_info, as json.dumps writes it: the int keys become strings
link_json(s, order, libs, ids) ==
    JDict([i \in 1 .. Len(ids) |-> ToString(ids[i])],
          [k \in {ToString(ids[i]) : i \in 1 .. Len(ids)} |->
              JDict(<<"objects">>,
                    [objects |-> link_names(s, order, libs,
                                    CHOOSE id \in {ids[i] : i \in 1 .. Len(ids)} :
                                       ToString(id) = k)])])

\* The optional fields of json_data
link_field(mode, s, order, libs) ==
    IF mode # "COPY_TEXT"
    THEN [keys |-> <<"link">>, v |-> [link |-> link_json(s, order, libs, link_ids(s, order, libs))]]
    ELSE [keys |-> <<>>, v |-> <<>>]

\* The clipboard file: no file, or a .blend file holding objects
NoFile == [exists |-> FALSE, objects |-> <<>>]

BlendFile(names) == [exists |-> TRUE, objects |-> names]

\* bpy.data.libraries.write(clipboard_path, datablocks): the file holds the
\* datablocks that are local when it is written (line 235: datablocks of
\* other libraries are not packed / localized into it).  With pack every
\* object has been made local before.
written_file(mode, s, objs) ==
    LET kept == SelectSeq([i \in DOMAIN s |-> i],
                          LAMBDA i : i \in objs
                                     /\ (mode = "COPY_TEXT" \/ s[i].library = 0))
    IN  BlendFile([k \in 1 .. Len(kept) |->
                     IF mode = "COPY_TEXT" THEN local_name(s, kept[k])
                     ELSE s[kept[k]].name])

\* The base64 text of a .blend file: the text of its header, then each
\* object it holds, closed by "="
Base64Header == "QkxFTkQ="

RECURSIVE read_b64(_)
read_b64(file) ==
    IF file.objects = <<>> THEN Base64Header
    ELSE read_b64(BlendFile(SubSeq(file.objects, 1, Len(file.objects) - 1)))
         \o file.objects[Len(file.objects)] \o "="

\* ClipboardUtil.write returns the packed file as base64 text, or None
data_field(mode, s, objs) ==
    IF mode # "COPY_LINKED"
    THEN [keys |-> <<"data">>,
          v |-> [data |-> IF mode = "COPY_TEXT"
                          THEN JStr(read_b64(written_file(mode, s, objs)))
                          ELSE JNull]]
    ELSE [keys |-> <<>>, v |-> <<>>]

libraries_json(mode, filepath, libs) ==
    IF mode # "COPY_TEXT"
    THEN JList([i \in 1 .. Len(libs) |-> JStr(library_paths(filepath, libs)[i])])
    ELSE JNull

json_fields(mode, filepath, libs, r) ==
    [content |-> JStr(content_key),
     context |-> JStr("3D"),
     mode |-> JStr(mode),
     cursor |-> serialize_matrix,
     view |-> serialize_view_rotation,
     frame |-> JNum(1),
     libraries |-> libraries_json(mode, filepath, libs),
     active |-> r.active.key,
     hierarchy |-> hierarchy_json(r.info)]

json_data(fields, link, data) ==
    JDict(<<"content", "context", "mode", "cursor", "view", "frame", "libraries",
            "active", "hierarchy">> \o link.keys \o data.keys,
          fields @@ link.v @@ data.v)

\* write_clipboard.  The result holds the text put on the clipboard (doc)
\* and what it was encoded from: the libraries in the order of their ids,
\* the (library id, name) pair of the active object and the hierarchy
\* entries.
written(mode, s, filepath, order, libs, r) ==
    [doc |-> json_data(json_fields(mode, filepath, libs, r),
                       link_field(mode, s, order, libs),
                       data_field(mode, s, {order[i] : i \in 1 .. Len(order)})),
     mode |-> mode, libs |-> libs, active |-> r.active.ref, info |-> r.info]

remapped(mode, s, filepath, objs, order, a, h) ==
    written(mode, s, filepath, order, h.libs,
            IF mode # "COPY_LINKED"
            THEN remap(a, h.info, id_map_of(mode, s, objs, h.libs), 1)
            ELSE [active |-> a, info |-> h.info])

with_active(mode, s, filepath, objs, active, order, ra) ==
    remapped(mode, s, filepath, objs, order, active_entry(s, objs, active, ra),
             get_hierarchy_info(ra.libs, s, objs, order, 1, <<>>))

write_clipboard(mode, s, filepath, objs, active, order) ==
    with_active(mode, s, filepath, objs, active, order,
                IF active \in objs
                THEN get_library_id(get_library_id(<<>>, 0).libs, s[active].library)
                ELSE get_library_id(<<>>, 0))

\* ------------------------------------------------------------------------
\* cut_copy_paste: OperatorPaste.read_clipboard.  Each step gives the
\* exception it raises ("" when it raises none).
\* ------------------------------------------------------------------------
NoExc == ""

\* The first exception of a sequence of steps
RECURSIVE FirstExc(_)
FirstExc(steps) ==
    IF steps = <<>> THEN NoExc
    ELSE IF Head(steps) # NoExc THEN Head(steps)
    ELSE FirstExc(Tail(steps))

\* get_value: d.get(name), then assert isinstance(value, type) or value is None
get_value(d, name, type) ==
    IF d.t # "obj" THEN "AttributeError"
    ELSE IF Get(d, name).t \in {type, "null"} THEN NoExc
    ELSE "AssertionError"

\* json_data["content"] == content_key
check_content(d) ==
    IF d.t # "obj" THEN "TypeError"
    ELSE IF "content" \notin DOMAIN d.v THEN "KeyError"
    ELSE IF d.v["content"] # JStr(content_key) THEN "AssertionError"
    ELSE NoExc

IsRow(row, n) ==
    /\ row.t = "list"
    /\ Len(row.items) = n
    /\ \A i \in 1 .. n : row.items[i].t = "num"

\* deserialize_matrix: len(rows), Matrix(rows) and the assert on the size
deserialize_matrix(rows) ==
    IF rows.t # "list" THEN "TypeError"
    ELSE IF Len(rows.items) \notin {3, 4} THEN "ValueError"
    ELSE IF \A i \in 1 .. Len(rows.items) : IsRow(rows.items[i], 4) THEN NoExc
    ELSE "ValueError"

\* get_convert(json_data, "view", Quaternion)
convert_view(value) ==
    IF value.t = "null" THEN NoExc
    ELSE IF IsRow(value, 4) THEN NoExc
    ELSE "TypeError"

Digits == <<"0", "1", "2", "3", "4", "5", "6", "7", "8", "9">>

IsDigit(c) == \E d \in 1 .. 10 : Digits[d] = c

DigitValue(c) == (CHOOSE d \in 1 .. 10 : Digits[d] = c) - 1

RECURSIVE digits_value(_, _)
digits_value(text, n) ==
    IF text = "" THEN n
    ELSE digits_value(SubSeq(text, 2, Len(text)), 10 * n + DigitValue(SubSeq(text, 1, 1)))

AllDigits(text) ==
    /\ text # ""
    /\ \A i \in 1 .. Len(text) : IsDigit(SubSeq(text, i, i))

\* int(text): a decimal numeral with an optional sign
int_of_text(text) ==
    IF AllDigits(text) THEN [exc |-> NoExc, n |-> digits_value(text, 0)]
    ELSE IF Len(text) > 1 /\ SubSeq(text, 1, 1) = "-" /\ AllDigits(SubSeq(text, 2, Len(text)))
    THEN [exc |-> NoExc, n |-> 0 - digits_value(SubSeq(text, 2, Len(text)), 0)]
    ELSE [exc |-> "ValueError", n |-> 0]

\* get_convert(json_data, "frame", int)
convert_frame(value) ==
    CASE value.t \in {"null", "num"} -> NoExc
      [] value.t = "inf" -> "OverflowError"
      [] value.t = "str" -> int_of_text(value.s).exc
      [] OTHER -> "TypeError"

\* get_value(json_data, "libraries", list) or [""], and the assert on each path
libraries_of(d) ==
    IF Get(d, "libraries").t = "list" /\ Get(d, "libraries").items # <<>>
    THEN Get(d, "libraries").items
    ELSE <<JStr("")>>

check_libraries(d) ==
    FirstExc(<<get_value(d, "libraries", "list"),
               IF \A i \in 1 .. Len(libraries_of(d)) : libraries_of(d)[i].t = "str"
               THEN NoExc ELSE "AssertionError">>)

\* value.split("/", 1): the position of the first "/" (0: none)
RECURSIVE find_separator(_, _)
find_separator(value, i) ==
    IF i > Len(value) THEN 0
    ELSE IF SubSeq(value, i, i) = "/" THEN i
    ELSE find_separator(value, i + 1)

NoRef == <<>>

to_ref_checked(lib_id, name, lib_count) ==
    IF lib_id.exc # NoExc THEN [exc |-> lib_id.exc, ref |-> NoRef]
    ELSE IF ~(lib_id.n >= 0 /\ lib_id.n < lib_count)
    THEN [exc |-> "AssertionError", ref |-> NoRef]
    ELSE [exc |-> NoExc, ref |-> <<lib_id.n, name>>]

to_ref_split(value, k, lib_count) ==
    IF k = 0 THEN [exc |-> "ValueError", ref |-> NoRef]
    ELSE to_ref_checked(int_of_text(SubSeq(value, 1, k - 1)),
                        SubSeq(value, k + 1, Len(value)), lib_count)

\* to_ref of a string
to_ref(value, lib_count) ==
    IF value = "" THEN [exc |-> NoExc, ref |-> NoRef]
    ELSE to_ref_split(value, find_separator(value, 1), lib_count)

\* to_ref(get_value(d, name, str))
ref_field(d, name, lib_count) ==
    IF get_value(d, name, "str") # NoExc
    THEN [exc |-> get_value(d, name, "str"), ref |-> NoRef]
    ELSE IF Get(d, name).t = "null" THEN [exc |-> NoExc, ref |-> NoRef]
    ELSE to_ref(Get(d, name).s, lib_count)

\* One item of the hierarchy comprehension: the key, then the value
entry_exc(key, info, lib_count) ==
    FirstExc(<<to_ref(key, lib_count).exc,
               ref_field(info, "parent", lib_count).exc,
               get_value(info, "parent_bone", "str"),
               deserialize_matrix(Get(info, "matrix"))>>)

\* get_value(json_data, "hierarchy", dict).items() and the comprehension
hierarchy_exc(d, lib_count) ==
    IF get_value(d, "hierarchy", "obj") # NoExc THEN get_value(d, "hierarchy", "obj")
    ELSE IF Get(d, "hierarchy").t = "null" THEN "AttributeError"
    ELSE FirstExc([i \in 1 .. Len(Get(d, "hierarchy").keys) |->
                      entry_exc(Get(d, "hierarchy").keys[i],
                                Get(d, "hierarchy").v[Get(d, "hierarchy").keys[i]],
                                lib_count)])

\* validate_lib_data
validate_lib_data(d) ==
    IF d.t # "obj" THEN "AssertionError"
    ELSE IF \A k \in DOMAIN d.v :
               /\ d.v[k].t = "list"
               /\ \A i \in 1 .. Len(d.v[k].items) : d.v[k].items[i].t = "str"
    THEN NoExc
    ELSE "AssertionError"

\* clipboard["link"]: {int(key): validate_lib_data(value) ...}
link_exc(d) ==
    IF get_value(d, "link", "obj") # NoExc THEN get_value(d, "link", "obj")
    ELSE IF Get(d, "link").t = "null" THEN NoExc
    ELSE FirstExc([i \in 1 .. Len(Get(d, "link").keys) |->
                      FirstExc(<<int_of_text(Get(d, "link").keys[i]).exc,
                                 validate_lib_data(
                                     Get(d, "link").v[Get(d, "link").keys[i]])>>)])

\* b64decode of the text of a file: the names closed by "=" after the
\* header; any other text is rejected
RECURSIVE decoded_names(_, _, _)
decoded_names(text, i, start) ==
    IF i > Len(text) THEN <<>>
    ELSE IF SubSeq(text, i, i) = "="
         THEN <<SubSeq(text, start, i - 1)>> \o decoded_names(text, i + 1, i + 1)
         ELSE decoded_names(text, i + 1, start)

IsBase64(text) ==
    \/ text = ""
    \/ /\ Len(text) >= Len(Base64Header)
       /\ SubSeq(text, 1, Len(Base64Header)) = Base64Header
       /\ SubSeq(text, Len(text), Len(text)) = "="

\* write_b64: the file the text decodes to
write_b64(text) ==
    BlendFile(decoded_names(text, Len(Base64Header) + 1, Len(Base64Header) + 1))

\* get_value(json_data, "data", str) and write_b64
data_exc(d) ==
    IF get_value(d, "data", "str") # NoExc THEN get_value(d, "data", "str")
    ELSE IF Get(d, "data").t = "str" /\ ~IsBase64(Get(d, "data").s)
    THEN "ValueError"
    ELSE NoExc

lib_count(d) == Len(libraries_of(d))

\* The exception read_clipboard raises on the clipboard text d
read_clipboard_exc(d) ==
    FirstExc(<<IF d = JInvalid THEN "ValueError" ELSE NoExc,
               check_content(d),
               get_value(d, "context", "str"),
               get_value(d, "mode", "str"),
               deserialize_matrix(Get(d, "cursor")),
               convert_view(Get(d, "view")),
               convert_frame(Get(d, "frame")),
               check_libraries(d),
               ref_field(d, "active", lib_count(d)).exc,
               hierarchy_exc(d, lib_count(d)),
               link_exc(d),
               data_exc(d)>>)

\* clipboard["hierarchy"]: for each decoded key the decoded parent; of two
\* keys decoding to the same reference the later one stays
decoded_hierarchy(h, n) ==
    {<<to_ref(h.keys[i], n).ref, ref_field(h.v[h.keys[i]], "parent", n).ref>> :
        i \in {i \in 1 .. Len(h.keys) :
                  \A j \in i + 1 .. Len(h.keys) :
                     to_ref(h.keys[j], n).ref # to_ref(h.keys[i], n).ref}}

NoClipboard == [active |-> NoRef, hierarchy |-> {}]

\* read_clipboard: the exception, or the references of the clipboard dict
read_clipboard(d) ==
    IF read_clipboard_exc(d) # NoExc
    THEN [exc |-> read_clipboard_exc(d), clipboard |-> NoClipboard]
    ELSE [exc |-> NoExc,
          clipboard |-> [active |-> ref_field(d, "active", lib_count(d)).ref,
                         hierarchy |-> decoded_hierarchy(Get(d, "hierarchy"),
                                                         lib_count(d))]]

\* clipboard["path"] after read_clipboard, lines 1264-1265: a non-empty
\* "data" is decoded into the clipboard file
file_after_read(d, file) ==
    IF Get(d, "data").t = "str" /\ Get(d, "data").s # ""
    THEN write_b64(Get(d, "data").s)
    ELSE file

\* clipboard["libraries"]: the paths
clipboard_libraries(d) == [i \in 1 .. Len(libraries_of(d)) |-> libraries_of(d)[i].s]

\* clipboard["hierarchy"].keys(), in the order of the text
hierarchy_keys(d) ==
    [i \in 1 .. Len(Get(d, "hierarchy").keys) |->
        to_ref(Get(d, "hierarchy").keys[i], lib_count(d)).ref]

\* data_infos.get("objects") of one library of clipboard["link"]
link_objects(infos) ==
    IF Get(infos, "objects").t = "list"
    THEN {Get(infos, "objects").items[i].s : i \in 1 .. Len(Get(infos, "objects").items)}
    ELSE {}

\* clipboard["link"].items(): the int keys in the order of the text, each
\* with the object names listed under it
link_items(d) ==
    [i \in 1 .. Len(Get(d, "link").keys) |->
        [lib_id |-> int_of_text(Get(d, "link").keys[i]).n,
         names |-> link_objects(Get(d, "link").v[Get(d, "link").keys[i]])]]

\* libraries[lib_id], with Python's indexing of a list
list_index(list, i) ==
    IF i >= 0 /\ i < Len(list) THEN [exc |-> NoExc, v |-> list[i + 1]]
    ELSE IF i < 0 /\ i >= 0 - Len(list) THEN [exc |-> NoExc, v |-> list[Len(list) + i + 1]]
    ELSE [exc |-> "IndexError", v |-> ""]

\* The names of the objects a library file holds (data_from.objects)
library_objects(s, filepath, path) ==
    {s[i].name : i \in {j \in DOMAIN s : s[j].library # 0
                                         /\ get_library_path(filepath, s[j].library) = path}}


\* What load_link and load_path did: the library files the host was asked to
\* link or append from, each with whether it is a file and whether it is the
\* current file (asked), the (library id, name) keys of the objects
\* loaded from them (loaded), the keys left to the clipboard file (obj_keys)
\* and the keys loaded from the clipboard file (from_file)
NoLoad == [exc |-> NoExc, asked |-> {}, loaded |-> {}, obj_keys |-> {}, from_file |-> {}]

\* load_link, lines 1144-1175, for one library of clipboard["link"]
link_step(acc, item, path, files, current, in_library) ==
    IF path.exc # NoExc THEN [acc EXCEPT !.exc = path.exc]
    ELSE IF path.v \notin files \/ path.v = current
    THEN [acc EXCEPT !.obj_keys = @ \cup {<<item.lib_id, name>> : name \in item.names}]
    ELSE [acc EXCEPT !.asked = @ \cup {[path |-> path.v, isfile |-> path.v \in files,
                                         current |-> path.v = current]},
                     !.loaded = @ \cup {<<item.lib_id, name>> :
                                           name \in item.names \cap in_library[path.v]}]

RECURSIVE link_loop(_, _, _, _, _, _, _)
link_loop(acc, items, i, libraries, files, current, in_library) ==
    IF i > Len(items) \/ acc.exc # NoExc THEN acc
    ELSE link_loop(link_step(acc, items[i], list_index(libraries, items[i].lib_id),
                             files, current, in_library),
                   items, i + 1, libraries, files, current, in_library)

\* load_path, lines 1185-1187: name_ids when obj_keys is the set load_link
\* built; of the keys of one name the one of library 0 stays, else the one
\* the set yields first (the lowest or the highest id of them)
name_ids_of_set(keys, lowest) ==
    [name \in {k[2] : k \in keys} |->
        IF <<0, name>> \in keys THEN 0
        ELSE IF lowest
        THEN CHOOSE id \in {k[1] : k \in keys} :
                /\ <<id, name>> \in keys
                /\ \A k \in keys : k[2] = name => id <= k[1]
        ELSE CHOOSE id \in {k[1] : k \in keys} :
                /\ <<id, name>> \in keys
                /\ \A k \in keys : k[2] = name => id >= k[1]]

\* name_ids when obj_keys is clipboard["hierarchy"].keys()
name_ids_of_seq(keys) ==
    [name \in {keys[i][2] : i \in 1 .. Len(keys)} |->
        IF \E i \in 1 .. Len(keys) : keys[i] = <<0, name>> THEN 0
        ELSE keys[CHOOSE i \in 1 .. Len(keys) :
                     /\ keys[i][2] = name
                     /\ \A j \in 1 .. i - 1 : keys[j][2] # name][1]]

\* load_path, lines 1189-1201: the objects of these names that the
\* clipboard file holds are appended
appended(acc, name_ids, file) ==
    [acc EXCEPT !.from_file =
        {<<name_ids[name], name>> :
            name \in DOMAIN name_ids \cap {file.objects[i] : i \in 1 .. Len(file.objects)}}]

\* load_path with the keys load_link left
load_path_of_set(acc, file, lowest) ==
    IF acc.exc # NoExc \/ acc.obj_keys = {} \/ ~file.exists THEN acc
    ELSE appended(acc, name_ids_of_set(acc.obj_keys, lowest), file)

\* load_path with the keys of the hierarchy; a key None cannot be unpacked
load_path(keys, file) ==
    IF ~file.exists THEN NoLoad
    ELSE IF \E i \in 1 .. Len(keys) : keys[i] = NoRef
    THEN [NoLoad EXCEPT !.exc = "TypeError"]
    ELSE appended(NoLoad, name_ids_of_seq(keys), file)

\* load_link
load_link(d, file, files, current, in_library, lowest) ==
    load_path_of_set(link_loop(NoLoad, link_items(d), 1, clipboard_libraries(d),
                               files, current, in_library),
                     file, lowest)

PasteModes == {"PASTE", "PASTE_LINKED"}

\* execute, lines 666-672: how the objects are loaded
load(d, mode, file, files, current, in_library, lowest) ==
    IF Get(d, "link").t = "obj"
       /\ (mode = "PASTE_LINKED" \/ Get(d, "mode") = JStr("COPY_LINKED"))
    THEN load_link(d, file, files, current, in_library, lowest)
    ELSE load_path(hierarchy_keys(d), file)

\* OperatorPaste.execute in Object mode: the except clause of lines 634-637
Caught == {"TypeError", "KeyError", "ValueError", "AssertionError"}

NoPaste == [result |-> "idle", report |-> "", exc |-> NoExc, added |-> FALSE,
            clipboard |-> NoClipboard, load |-> NoLoad]

\* execute, lines 674-676 and after: with no object loaded nothing is pasted
pasted(r, l) ==
    IF l.exc # NoExc
    THEN [NoPaste EXCEPT !.result = "RAISED", !.exc = l.exc,
                         !.clipboard = r.clipboard, !.load = l]
    ELSE IF l.loaded \cup l.from_file = {}
    THEN [NoPaste EXCEPT !.result = "CANCELLED", !.report = "0 objects pasted",
                         !.clipboard = r.clipboard, !.load = l]
    ELSE [NoPaste EXCEPT !.result = "PASTED", !.added = TRUE,
                         !.clipboard = r.clipboard, !.load = l]

\* execute on what read_clipboard gave
execute_paste(r, d, mode, file, files, current, in_library, lowest) ==
    IF r.exc \in Caught
    THEN [NoPaste EXCEPT !.result = "CANCELLED",
                         !.report = "Incompatible format of clipboard data"]
    ELSE IF r.exc # NoExc
    THEN [NoPaste EXCEPT !.result = "RAISED", !.exc = r.exc]
    ELSE pasted(r, load(d, mode, file, files, current, in_library, lowest))

\* ------------------------------------------------------------------------
\* Clipboard texts that do not come from Copy
\* ------------------------------------------------------------------------
OneObject == <<[name |-> "P", library |-> 0, parent |-> 0]>>

\* The text Copy writes for a single local object
SampleDoc == write_clipboard("COPY", OneObject, "", {1}, 1, <<1>>).doc

SampleEntry == SampleDoc.v["hierarchy"].v["0/P"]

Replace(d, name, value) ==
    JDict(IF name \in DOMAIN d.v THEN d.keys ELSE Append(d.keys, name),
          [k \in DOMAIN d.v \cup {name} |-> IF k = name THEN value ELSE d.v[k]])

Remove(d, name) ==
    JDict(SelectSeq(d.keys, LAMBDA k : k # name),
          [k \in DOMAIN d.v \ {name} |-> d.v[k]])

OneKey(key, value) == JDict(<<key>>, [k \in {key} |-> value])

\* For each field of the text, values of another type or shape than the
\* one Copy writes
WrongValues ==
    [content |-> {JNull, JStr("x")},
     context |-> {JNum(1)},
     mode |-> {JList(<<>>)},
     cursor |-> {JNull, JStr("x"), JList(<<>>)},
     view |-> {JNum(1), JList(<<JNum(1)>>)},
     frame |-> {JInf, JStr("x"), JList(<<>>)},
     libraries |-> {JStr("x"), JList(<<JNum(1)>>), JDict(<<>>, <<>>)},
     active |-> {JNum(1), JStr("P"), JStr("x/P"), JStr("1/P"), JStr("-1/P")},
     hierarchy |-> {JNull, JList(<<>>),
                    OneKey("0/P", JStr("x")), OneKey("0/P", JNull),
                    OneKey("P", SampleEntry), OneKey("1/P", SampleEntry),
                    OneKey("0/P", Replace(SampleEntry, "parent", JNum(1))),
                    OneKey("0/P", Remove(SampleEntry, "matrix"))},
     link |-> {JList(<<>>), OneKey("x", OneKey("objects", JList(<<JStr("P")>>))),
               OneKey("0", JList(<<>>))},
     data |-> {JNum(1), JStr("x")}]

Fields == DOMAIN WrongValues

Docs ==
    {JInvalid, JNull, JNum(1), JStr("x"), JList(<<>>), SampleDoc}
    \cup {Remove(SampleDoc, name) : name \in {"content", "cursor", "frame", "hierarchy"}}
    \cup UNION {{Replace(SampleDoc, name, value) : value \in WrongValues[name]} :
                   name \in Fields}

\* ------------------------------------------------------------------------
\* Idle values of the clipboard state
\* ------------------------------------------------------------------------
NoCopy == [result |-> "idle", mode |-> "", libs |-> <<>>, active |-> NoRef,
           info |-> <<>>]

\* What a finished Copy leaves in `copied`
Copied(w) ==
    [result |-> "FINISHED", mode |-> w.mode, libs |-> w.libs, active |-> w.active,
     info |-> w.info]

ClipIdle ==
    /\ scene = OneObject
    /\ data_filepath = ""
    /\ clipboard = JInvalid
    /\ copied = NoCopy
    /\ paste = NoPaste

\* ------------------------------------------------------------------------
\* Actions of the navigation operator
\* ------------------------------------------------------------------------
InvokeEvents == {e \in [name : {"MIDDLEMOUSE:PRESS", "MIDDLEMOUSE:DOUBLE_CLICK"},
                        shift : BOOLEAN, ctrl : BOOLEAN, alt : BOOLEAN] : TRUE}

\* InputKeyMonitor.update overwrites self.event before anything reads it, so
\* between two events only the key states are kept.
between_events(k) == [k EXCEPT !.event = ""]

NoKeys == [states |-> [key \in StateKeys |-> FALSE], event |-> ""]

NoSelf == snapshot([lock_camera |-> FALSE, is_perspective |-> FALSE, distance |-> 0,
                    focus |-> 0, rotation |-> 0],
                   [use_mouse_continuous |-> FALSE, smooth_view |-> 0])

NavStart(s) ==
    /\ pc = "idle"
    /\ settings = s
    /\ km = NoKeys
    /\ ms = ModeStack_init({}, "NONE", "NONE")
    /\ mode_path = <<>>
    /\ upd_transitions = {}
    /\ sv = [is_perspective |-> settings.is_perspective, distance |-> 0,
             focus |-> 0, rotation |-> 0, lock_camera |-> settings.lock_camera,
             bypass_camera_lock |-> FALSE, use_viewpoint |-> FALSE]
    /\ self = NoSelf
    /\ modes_state = [m \in ModeNames |-> mode_state(sv)]
    /\ prefs = [use_mouse_continuous |-> settings.use_mouse_continuous,
                smooth_view |-> settings.smooth_view]
    /\ addon_objects = {}
    /\ pre = [view |-> ViewOf(sv), adjusted |-> ViewOf(sv),
              lock_camera |-> sv.lock_camera, prefs |-> prefs]
    /\ ortho_panned = FALSE
    /\ active_state = modes_state
    /\ fps = FpsStart

InitNav ==
    /\ \E s \in NavSettings : NavStart(s)
    /\ ClipIdle

\* invoke.  depth: the distance after the orbit-origin depth adjustment of
\* lines 1044-1050 (use_origin_mouse, a successful cast, a perspective view),
\* which keeps the viewpoint and so moves the focus to dfocus; zbrush: whether
\* the ZBrush test of lines 1058-1072 passes the event through.
Invoke(event, depth, dfocus, zbrush) ==
    /\ pc = "idle"
    /\ (depth = sv.distance) = (dfocus = sv.focus)
    /\ (~sv.is_perspective => depth = sv.distance)
    /\ LET v0 == SmartView3D_set(SmartView3D_set(sv, "distance", depth),
                                 "focus", dfocus)
           k == InputKeyMonitor_update(km, event)
           upd == ModeStack_update(
                      ModeStack_init(settings.allowed_transitions,
                                     settings.default_mode, "NONE"), k)
       IN  /\ pre' = [view |-> ViewOf(sv), adjusted |-> ViewOf(v0),
                      lock_camera |-> sv.lock_camera, prefs |-> prefs]
           /\ km' = between_events(k)
           /\ mode_path' = upd.path
           /\ upd_transitions' = settings.allowed_transitions
           /\ IF zbrush
              THEN /\ pc' = "PASS_THROUGH"
                   /\ ms' = upd.ms
                   /\ sv' = v0
                   /\ UNCHANGED <<self, modes_state, prefs, addon_objects,
                                   active_state>>
              ELSE LET me == snapshot(v0, prefs)
                       v1 == SmartView3D_set(
                                 SmartView3D_set(v0, "lock_camera", FALSE),
                                 "bypass_camera_lock", me._lock_camera)
                   IN  /\ pc' = "modal"
                       /\ ms' = initial_mode(upd.ms, settings.default_mode)
                       /\ self' = me
                       /\ sv' = v1
                       /\ modes_state' = [m \in ModeNames |-> mode_state(v1)]
                       /\ active_state' = [m \in ModeNames |-> mode_state(v1)]
                       /\ prefs' = [prefs EXCEPT !.use_mouse_continuous = TRUE,
                                                 !.smooth_view = 0]
                       /\ addon_objects' = register_handlers(addon_objects)
    /\ UNCHANGED <<settings, ortho_panned, clipvars, fps>>

\* PAN, DOLLY or ZOOM is the active mode in an orthographic view, with
\* ortho_unrotate on
OrthoPanning ==
    /\ pc = "modal"
    /\ settings.ortho_unrotate
    /\ ~sv.is_perspective
    /\ ms.mode \in {"PAN", "DOLLY", "ZOOM"}

\* cleanup, as the three actions below run it
Cleanup(v) ==
    /\ sv' = cleanup_view(v, self)
    /\ prefs' = cleanup_prefs(prefs, self)
    /\ addon_objects' = unregister_handlers(addon_objects)

\* modal, lines 366-372 and modal_main, lines 673-686, on the effect r of the
\* event
ModalEffect(r) ==
    /\ km' = between_events(r.km)
    /\ mode_path' = r.path
    /\ upd_transitions' = ms.transitions
    /\ modes_state' = r.modes_state
    /\ active_state' = note_active(active_state, r.ms.mode, r.sv)
    /\ IF r.confirm
       THEN /\ Cleanup(r.sv)
            /\ ms' = r.ms
            /\ pc' = "FINISHED"
       ELSE IF r.cancel
       THEN /\ Cleanup(revert_changes(r.sv, self))
            /\ ms' = [r.ms EXCEPT !.mode = "None"]
            /\ pc' = "CANCELLED"
       ELSE /\ sv' = r.sv
            /\ ms' = r.ms
            /\ pc' = "modal"
            /\ UNCHANGED <<prefs, addon_objects>>

\* modal: one event handled by modal_main
Modal(event, nv, fv) ==
    /\ pc = "modal"
    /\ ModalEffect(modal_main(event, nv, fv))
    /\ ortho_panned' = (ortho_panned \/ OrthoPanning)
    /\ UNCHANGED <<settings, self, pre, clipvars, fps>>

\* modal, lines 368-372: modal_main raised; cleanup runs and the exception is
\* raised again.  The exception comes before the event had any effect, or
\* (late) after all of it.
RaiseEffect(r, late) ==
    IF late
    THEN /\ km' = between_events(r.km)
         /\ mode_path' = r.path
         /\ upd_transitions' = ms.transitions
         /\ modes_state' = r.modes_state
         /\ active_state' = note_active(active_state, r.ms.mode, r.sv)
         /\ ms' = r.ms
         /\ Cleanup(r.sv)
    ELSE /\ Cleanup(sv)
         /\ UNCHANGED <<km, mode_path, upd_transitions, modes_state, ms,
                         active_state>>

ModalRaise(event, nv, fv, late) ==
    /\ pc = "modal"
    /\ RaiseEffect(modal_main(event, nv, fv), late)
    /\ pc' = "RAISED"
    /\ ortho_panned' = (ortho_panned \/ OrthoPanning)
    /\ UNCHANGED <<settings, self, pre, clipvars, fps>>

\* What an event lets the user put in: a navigation value with a mouse move,
\* a wheel step or a timer tick, and a movement (fv differs from the focus) with
\* a timer tick.
NavInputs(event) ==
    IF event.name \in {"MOUSEMOVE:NOTHING", "WHEELUPMOUSE:PRESS", "TIMER:NOTHING"}
    THEN ViewVals ELSE {0}

MoveInputs(event) ==
    IF event.name = "TIMER:NOTHING" THEN ViewVals ELSE {sv.focus}

NextNav ==
    \/ \E event \in InvokeEvents, depth \in ViewVals, dfocus \in ViewVals,
          zbrush \in BOOLEAN : Invoke(event, depth, dfocus, zbrush)
    \/ \E event \in Events(km) : \E nv \in NavInputs(event), fv \in MoveInputs(event) :
          Modal(event, nv, fv)
    \/ \E event \in Events(km), late \in BOOLEAN :
          \E nv \in NavInputs(event), fv \in MoveInputs(event) :
             ModalRaise(event, nv, fv, late)

SpecNav == InitNav /\ [][NextNav]_vars

\* Runs with independent modes: any default mode the settings offer, in a
\* perspective or an orthographic view
ModeSettings ==
    {[DefaultSettings EXCEPT !.independent_modes = TRUE, !.default_mode = m,
                             !.is_perspective = p] :
        m \in {"ORBIT", "DOLLY"}, p \in BOOLEAN}

InitModes ==
    /\ \E s \in ModeSettings : NavStart(s)
    /\ ClipIdle

\* The events of such a run: the mouse moves, shift and ctrl go down and up
\* (the keys of PAN and ZOOM), a double click starts FLY, and RET confirms
ModeEvents(k) ==
    {e \in Events(k) :
        e.name \in {"MOUSEMOVE:NOTHING", "LEFT_SHIFT:PRESS", "LEFT_SHIFT:RELEASE",
                    "LEFT_CTRL:PRESS", "LEFT_CTRL:RELEASE",
                    "MIDDLEMOUSE:DOUBLE_CLICK", "MIDDLEMOUSE:RELEASE", "RET:PRESS"}}

NextModes ==
    \/ Invoke([name |-> "MIDDLEMOUSE:PRESS", shift |-> FALSE, ctrl |-> FALSE,
               alt |-> FALSE], sv.distance, sv.focus, FALSE)
    \/ \E event \in ModeEvents(km) : \E nv \in NavInputs(event) :
          Modal(event, nv, sv.focus)

SpecModes == InitModes /\ [][NextModes]_vars

\* ------------------------------------------------------------------------
\* The modal operator in FLY and FPS
\* ------------------------------------------------------------------------
FpsModes == {"ORBIT", "FLY", "FPS"}

\* What an event and the host put in: the mode the mode stack goes to, the
\* wheel, the movement keys held, a press of the teleport key and what the
\* ray cast hits, the invoke key, the displacement of normal movement, the
\* gravity preference and the collision test
FpsInputs ==
    [mode : FpsModes, wheel_delta : -1 .. 1, held : SUBSET MoveKeys,
     is_teleport : BOOLEAN, hit : {NoPos} \cup {<<p>> : p \in Positions},
     invoke_on : BOOLEAN, walk : {-TeleportTime, 0, TeleportTime},
     use_gravity : BOOLEAN, collided : BOOLEAN]

\* The inputs of flying: no teleport, nothing moves the viewpoint
FlyInputs ==
    {in \in FpsInputs : /\ ~in.is_teleport /\ in.hit = NoPos /\ in.walk = 0
                        /\ ~in.use_gravity /\ ~in.collided}

\* The inputs of walking: no wheel, the invoke key is up
WalkInputs ==
    {in \in FpsInputs : /\ in.wheel_delta = 0 /\ ~in.invoke_on
                        /\ (in.is_teleport \/ in.hit = NoPos)
                        /\ (in.collided => in.use_gravity)}

\* modal: one event in a run, tick ticks after the last one
FpsModal(in, tick) ==
    /\ fps.clock + tick <= MaxClock
    /\ fps_modal_main(fps, in, fps.clock + tick).viewpoint \in Positions
    /\ fps' = fps_modal_main(fps, in, fps.clock + tick)
    /\ UNCHANGED <<navvars, clipvars>>

\* Runs in a view that can move, in or out of a locked quad view
FpsSettings ==
    {[DefaultSettings EXCEPT !.quadview_lock = q] : q \in BOOLEAN}

InitFps ==
    /\ \E s \in FpsSettings : NavStart(s)
    /\ ClipIdle

NextFly == \E in \in FlyInputs, tick \in 0 .. MaxTick : FpsModal(in, tick)

SpecFly == InitFps /\ [][NextFly]_vars

NextWalk == \E in \in WalkInputs, tick \in 0 .. MaxTick : FpsModal(in, tick)

SpecWalk == InitFps /\ [][NextWalk]_vars

\* ------------------------------------------------------------------------
\* Actions of the clipboard operators
\* ------------------------------------------------------------------------
\* execute, lines 450-452: the text written becomes the clipboard
CopyEffect(w) ==
    /\ clipboard' = w.doc
    /\ copied' = Copied(w)

\* OperatorCopy.execute in Object mode
Copy(mode, objs, active, order) ==
    /\ IF objs = {}
       THEN /\ copied' = [NoCopy EXCEPT !.result = "CANCELLED"]
            /\ UNCHANGED clipboard
       ELSE CopyEffect(write_clipboard(mode, scene, data_filepath, objs, active, order))
    /\ paste' = NoPaste
    /\ UNCHANGED <<scene, data_filepath, navvars, fps>>

\* The clipboard text is set from outside
SetClipboard(doc) ==
    /\ clipboard' = doc
    /\ copied' = NoCopy
    /\ paste' = NoPaste
    /\ UNCHANGED <<scene, data_filepath, navvars, fps>>

\* The library files there may be, and the files that exist: the current
\* file once it is saved, and some of the library files
LibraryFiles == {get_library_path("", library) : library \in 1 .. MaxLibraries}

ExistingFiles(files) == files \cup ({data_filepath} \ {""})

\* The file at the clipboard path when Paste runs.  ClipboardUtil.write
\* replaces it in every Copy but one in the mode COPY_LINKED (lines 485-490):
\* after a Copy in another mode it is the file that Copy wrote, else it is
\* the file of any earlier Copy, or there is none.
ClipboardFiles ==
    IF copied.result = "FINISHED" /\ copied.mode # "COPY_LINKED"
    THEN {written_file(copied.mode, scene,
                       {copied.info[i].obj : i \in 1 .. Len(copied.info)})}
    ELSE {NoFile}
         \cup {written_file(mode, scene, objs) :
                  mode \in {"COPY", "COPY_TEXT"},
                  objs \in SUBSET DOMAIN scene \ {{}}}

\* OperatorPaste.execute; files: the library files that exist, file: the
\* clipboard file, lowest: the order in which the set obj_keys is iterated
Paste(mode, files, file, lowest) ==
    /\ paste' = execute_paste(read_clipboard(clipboard), clipboard, mode,
                              file_after_read(clipboard, file),
                              ExistingFiles(files), data_filepath,
                              [path \in LibraryFiles |->
                                  library_objects(scene, data_filepath, path)],
                              lowest)
    /\ UNCHANGED <<clipboard, copied, scene, data_filepath, navvars, fps>>

InitClip ==
    /\ NavStart(DefaultSettings)
    /\ scene \in Scenes
    /\ data_filepath \in FilePaths
    /\ clipboard = JInvalid
    /\ copied = NoCopy
    /\ paste = NoPaste

\* The clipboard texts of Copy and from outside, pasted where every library
\* file exists
NextClip ==
    \/ \E mode \in CopyModes, objs \in SUBSET DOMAIN scene, active \in 0 .. Len(scene) :
          \E order \in Orders(objs) : Copy(mode, objs, active, order)
    \/ \E doc \in Docs : SetClipboard(doc)
    \/ \E file \in ClipboardFiles : Paste("PASTE", LibraryFiles, file, TRUE)

SpecClip == InitClip /\ [][NextClip]_vars

\* The clipboard texts of Copy, pasted in either mode with any of the
\* library files missing
NextLoad ==
    \/ \E mode \in CopyModes, objs \in SUBSET DOMAIN scene, active \in 0 .. Len(scene) :
          \E order \in Orders(objs) : Copy(mode, objs, active, order)
    \/ \E mode \in PasteModes, files \in SUBSET LibraryFiles, file \in ClipboardFiles,
          lowest \in BOOLEAN : Paste(mode, files, file, lowest)

\* The scenes pasted into: MaxObjects objects without parents, the libraries
\* numbered in the order of their first object
LoadScenes ==
    {s \in Scenes :
        /\ Len(s) = MaxObjects
        /\ \A i \in DOMAIN s :
              /\ s[i].parent = 0
              /\ \/ s[i].library <= 1
                 \/ \E j \in 1 .. i - 1 : s[j].library = s[i].library - 1}

InitLoad ==
    /\ NavStart(DefaultSettings)
    /\ scene \in LoadScenes
    /\ data_filepath \in FilePaths
    /\ clipboard = JInvalid
    /\ copied = NoCopy
    /\ paste = NoPaste

SpecLoad == InitLoad /\ [][NextLoad]_vars

\* ------------------------------------------------------------------------
\* Properties of the navigation operator
\* ------------------------------------------------------------------------
Ended == pc \in {"FINISHED", "CANCELLED", "RAISED"}

\* 'A:B' or 'B:A' is in the set trs
InSet(trs, a, b) == (a \o ":" \o b) \in trs \/ (b \o ":" \o a) \in trs

\* The event asks for mode `name`: its state key goes on, or its event key
\* comes while another mode is active.
Requests(event, name) ==
    \/ \E key \in mode_keys[name] \cap {"shift", "ctrl"} :
          ~km.states[key] /\ event[key]
    \/ event.name \in mode_keys[name] /\ ms.mode # name

\* C1: on every modal event the mode changes from A to a different mode B only
\* if 'A:B' or 'B:A' is in the allowed transitions in force when ModeStack.update
\* runs (each assignment of self.mode in the update is such a change), and an
\* event that requests a transition not in the set leaves the mode unchanged.
C1_ChangesByAllowedTransitions ==
    /\ \A i \in 1 .. Len(mode_path) - 1 :
          InSet(upd_transitions, mode_path[i], mode_path[i + 1])
    /\ pc = "modal" =>
          \A event \in Events(km), name \in ModeNames :
             Requests(event, name) /\ ~InSet(ms.transitions, ms.mode, name)
                => ModeStack_update(ms, InputKeyMonitor_update(km, event)).ms.mode
                      = ms.mode

\* C1's case: a modal event changed the mode (ORBIT to PAN), and FPS, which
\* the Tab key now requests, is not an allowed transition from PAN.
C1_Witness ==
    /\ pc = "modal"
    /\ mode_path = <<"ORBIT", "PAN">>
    /\ ~InSet(ms.transitions, "PAN", "FPS")
    /\ \E event \in Events(km) : Requests(event, "FPS")

\* C2: while the operator is modal (from invoke's RUNNING_MODAL to FINISHED or
\* CANCELLED) the mode is one of ORBIT, PAN, DOLLY, ZOOM, FLY, FPS.
C2_ModeIsOneOfSix == pc = "modal" => ms.mode \in ModeNames

\* C2's case: invoke's update left the stack in 'NONE' (no mode key was held)
\* and invoke returned RUNNING_MODAL.
C2_Witness ==
    /\ pc = "modal"
    /\ mode_path = <<"NONE">>
    /\ ms.mode = settings.default_mode

\* C5, as stated: a cancelled navigation leaves rotation, distance, focus and
\* the perspective flag as they were when invoke was entered.
C5_CancelRestoresEntryView == pc = "CANCELLED" => ViewOf(sv) = pre.view

\* C5, amended: a cancelled navigation leaves rotation, distance, focus and
\* the perspective flag as invoke recorded them, that is after invoke's own
\* orbit-origin depth adjustment of the distance and the focus.
C5_CancelRestoresRecordedView == pc = "CANCELLED" => ViewOf(sv) = pre.adjusted

\* C5's case: a navigation that began with a depth adjustment and went through
\* mode changes is cancelled.
C5_Witness ==
    /\ pc = "CANCELLED"
    /\ pre.adjusted # pre.view
    /\ Len(ms.stack) > 1

\* C6: the timer and the draw handler are registered while the operator is
\* modal, and neither is registered after it ended by confirm, cancel or an
\* exception in the modal handler.
C6_HandlersRemoved ==
    /\ pc = "modal" => {"_timer", "_handle_view"} \subseteq addon_objects
    /\ Ended => addon_objects \cap {"_timer", "_handle_view"} = {}

\* C6's case: the modal handler raised in the middle of a navigation.
C6_Witness == pc = "RAISED" /\ ms.mode = "FLY"

\* C7: after confirm, cancel or an exception, lock_camera and the
\* use_mouse_continuous and smooth_view preferences are what they were when
\* invoke was entered.
C7_SettingsRestored ==
    Ended => /\ sv.lock_camera = pre.lock_camera
             /\ prefs = pre.prefs

\* C7's case: the operator ended (each of the three ways is one disjunct's
\* state) after invoke had overridden a setting that was on.
C7_Witness ==
    /\ pc = "FINISHED"
    /\ pre.prefs.smooth_view # 0
    /\ pre.lock_camera

\* C8, as stated: with ortho_unrotate on, once PAN, DOLLY or ZOOM has been the
\* active mode in an orthographic view, the mode is never ORBIT again while the
\* operator runs.
C8_NeverOrbitAgain == pc = "modal" /\ ortho_panned => ms.mode # "ORBIT"

\* C9, as stated: the default mode is always in the ModeStack's stack.
C9_DefaultModeInStack ==
    pc = "modal" => \E i \in 1 .. Len(ms.stack) : ms.stack[i] = ms.default_mode

\* ------------------------------------------------------------------------
\* Properties of the clipboard protocol
\* ------------------------------------------------------------------------
\* The clipboard holds what a finished Copy wrote
FromCopy == copied.result = "FINISHED"

Pasted == paste.result # "idle"

\* The (library id, name) pairs Copy encoded into the hierarchy
EncodedHierarchy ==
    {<<copied.info[i].ref, copied.info[i].parent_ref>> : i \in 1 .. Len(copied.info)}

\* C3, as stated: the text Copy writes, in any mode and for any selection, is
\* accepted by read_clipboard without a format error, and the decoded active
\* reference, hierarchy keys and hierarchy parents are the (library id, name)
\* pairs Copy encoded.
C3_CopyReadsBack ==
    FromCopy /\ Pasted =>
        /\ paste.report # "Incompatible format of clipboard data"
        /\ paste.exc = NoExc
        /\ paste.clipboard.active = copied.active
        /\ paste.clipboard.hierarchy = EncodedHierarchy

\* The text of a reference: empty, or a decimal library id, "/" and a name
IsRefText(text) ==
    \/ text = ""
    \/ /\ find_separator(text, 1) > 1
       /\ AllDigits(SubSeq(text, 1, find_separator(text, 1) - 1))

IsRefOrNull(value) ==
    \/ value.t = "null"
    \/ value.t = "str" /\ IsRefText(value.s)

IsMatrix(value) ==
    /\ value.t = "list"
    /\ Len(value.items) \in {3, 4}
    /\ \A i \in 1 .. Len(value.items) : IsRow(value.items[i], 4)

IsEntry(value) ==
    /\ value.t = "obj"
    /\ IsRefOrNull(Get(value, "parent"))
    /\ Get(value, "parent_bone").t \in {"str", "null"}
    /\ IsMatrix(Get(value, "matrix"))

IsListOf(value, type) ==
    /\ value.t = "list"
    /\ \A i \in 1 .. Len(value.items) : value.items[i].t = type

IsLink(value) ==
    /\ value.t = "obj"
    /\ \A k \in DOMAIN value.v :
          /\ int_of_text(k).exc = NoExc
          /\ value.v[k].t = "obj"
          /\ \A name \in DOMAIN value.v[k].v : IsListOf(value.v[k].v[name], "str")

\* The text is valid JSON, has the content key, and each field has the type
\* and shape of what Copy writes (a field other than the cursor, the
\* hierarchy and a matrix may be null or absent)
RightShape(d) ==
    /\ d.t = "obj"
    /\ Get(d, "content") = JStr(content_key)
    /\ Get(d, "context").t \in {"str", "null"}
    /\ Get(d, "mode").t \in {"str", "null"}
    /\ IsMatrix(Get(d, "cursor"))
    /\ Get(d, "view").t = "null" \/ IsRow(Get(d, "view"), 4)
    /\ Get(d, "frame").t \in {"num", "null"}
    /\ Get(d, "libraries").t = "null" \/ IsListOf(Get(d, "libraries"), "str")
    /\ IsRefOrNull(Get(d, "active"))
    /\ Get(d, "hierarchy").t = "obj"
    /\ \A k \in DOMAIN Get(d, "hierarchy").v :
          IsRefText(k) /\ IsEntry(Get(d, "hierarchy").v[k])
    /\ Get(d, "link").t = "null" \/ IsLink(Get(d, "link"))
    /\ Get(d, "data").t \in {"str", "null"}

\* C4, as stated: when the clipboard text is not valid JSON, lacks the
\* content key or has a field of the wrong type or shape, Paste reports
\* 'Incompatible format of clipboard data' and returns CANCELLED, raising
\* nothing and adding nothing.
C4_MalformedIsReported ==
    Pasted /\ ~RightShape(clipboard) =>
        /\ paste.result = "CANCELLED"
        /\ paste.report = "Incompatible format of clipboard data"
        /\ ~paste.added

\* The libraries field of the text lists the current file first, the library
\* id of every copied object and of its parent is the position of its library
\* in the list, and no library is listed twice.
ListedAt(id, obj) ==
    /\ (id = 0) = (scene[obj].library = 0)
    /\ id + 1 \in 1 .. Len(Get(clipboard, "libraries").items)
    /\ Get(clipboard, "libraries").items[id + 1]
          = JStr(get_library_path(data_filepath, scene[obj].library))

LibrariesListed ==
    /\ Get(clipboard, "libraries").t = "list"
    /\ Get(clipboard, "libraries").items # <<>>
    /\ Get(clipboard, "libraries").items[1] = JStr(data_filepath)
    /\ \A i, j \in 1 .. Len(Get(clipboard, "libraries").items) :
          i # j => copied.libs[i] # copied.libs[j]
    /\ \A i \in 1 .. Len(copied.info) :
          /\ copied.info[i].key \in DOMAIN Get(clipboard, "hierarchy").v
          /\ copied.info[i].key = object_id(copied.info[i].ref[1], copied.info[i].ref[2])
          /\ ListedAt(copied.info[i].ref[1], copied.info[i].obj)
          /\ copied.info[i].parent_obj # 0 =>
                ListedAt(copied.info[i].parent_ref[1], copied.info[i].parent_obj)

\* C10, as stated: in the clipboard data written by Copy the current file is
\* always the first in the list of libraries, id 0 denotes the current file
\* and every other library referenced by a copied object has one distinct id,
\* its position in that list.
C10_CurrentFileFirst == FromCopy => LibrariesListed

\* C10, amended: the same, for the modes COPY and COPY_LINKED; COPY_TEXT
\* writes no list of libraries (null).
C10_CurrentFileFirstUnlessText ==
    FromCopy /\ copied.mode # "COPY_TEXT" => LibrariesListed

\* C10's case: a linked copy of two objects of two libraries, the first
\* object iterated being of library 2.
C10_Witness ==
    /\ FromCopy
    /\ copied.mode = "COPY_LINKED"
    /\ copied.libs = <<0, 2, 1>>

\* C11, as stated: Paste never asks the host to link or append from the
\* current file or from a library file that does not exist, and the objects
\* listed under such a library are loaded from the clipboard file instead.
C11_SkippedLibrariesFromClipboard ==
    Pasted =>
        /\ \A a \in paste.load.asked : a.isfile /\ ~a.current
        /\ paste.load.obj_keys \subseteq paste.load.from_file

\* C12, as stated: with independent modes, when the mode changes to a mode M
\* other than FLY or FPS, lines 423-434 set the view's perspective flag,
\* distance, focus and rotation to the values it had at the end of the last
\* event in which M was the active mode, or to the values invoke left if M
\* has not been active in this run.
C12_RestoresLastActive ==
    [][(/\ pc = "modal"
        /\ pc' = "modal"
        /\ settings.independent_modes
        /\ ms'.mode # ms.mode
        /\ ms'.mode \in ModeNames \ {"FLY", "FPS"})
       => ViewOf(independent_view(ms'.mode)) = active_state[ms'.mode]]_vars

\* C13: after any sequence of events of FLY (each calls update_fly_speed
\* with the wheel's step), the forward fly speed is a whole number in
\* -9 .. 9: it has no fractional part and stays in that range.
C13_FlySpeedWholeInRange ==
    /\ fps.fly_speed % Half = 0
    /\ fps.fly_speed >= -MaxFlySpeed * Half
    /\ fps.fly_speed <= MaxFlySpeed * Half

\* The wheel has driven the speed to its upper limit in FLY
C13_Witness ==
    /\ fps.mode = "FLY"
    /\ fps.fly_speed = MaxFlySpeed * Half

\* What the steps of a teleport do: while self.teleport_pos is set when the
\* movement of the event is computed, calc_abs_speed_teleport moves the
\* viewpoint and the velocity of gravity is left alone; once the time since
\* its start has reached teleport_time the viewpoint is the target and the
\* teleport is over.
TeleportMoves ==
    fps'.pending # NoPos =>
        /\ fps'.moved = "teleport"
        /\ fps'.velocity = fps.velocity
        /\ fps'.clock - fps'.teleport_time_start >= TeleportTime =>
              /\ fps'.viewpoint = fps'.pending[1]
              /\ fps'.teleport_pos = NoPos

\* The mode has left FLY / FPS: no teleport
TeleportLeft ==
    fps'.mode \notin {"FLY", "FPS"} =>
        fps'.teleport_pos = NoPos /\ fps'.pending = NoPos

====
